---- MODULE Spec2Model ----
(***************************************************************************)
(* A model of the doubly linked list of main.cpp: the heap of Node         *)
(* objects, the list's head / tail / size_ fields, and the four mutating   *)
(* operations translated statement by statement.                           *)
(***************************************************************************)
EXTENDS Integers, Sequences, FiniteSets, TLC

\* ------------------------------------------------------------------ bounds
\* Number of addresses the allocator can hand out (heap capacity).
MaxNodes == 3
\* int payloads are drawn from 1..MaxVal (duplicates are allowed).
MaxVal == 2
\* Cap on the number of push calls in one behaviour (bounds the counters).
MaxPushes == 5
\* Width of std::size_t in the model: size_ is kept modulo 2^SizeBits.
SizeBits == 16

Values == 1 .. MaxVal
Addr == 1 .. MaxNodes
SizeMod == 2 ^ SizeBits

\* ------------------------------------------------------------------- heap
\* nullptr
NULL == 0

\* Storage that holds no Node object (never allocated, or deleted).  Its
\* contents are indeterminate in the program; the model never reads them:
\* every access to such storage is recorded in ub instead.
FreeNode == [data |-> 0, prev |-> NULL, next |-> NULL, live |-> FALSE]

\* Node(int value) : data(value), prev(nullptr), next(nullptr)
Node(value) == [data |-> value, prev |-> NULL, next |-> NULL, live |-> TRUE]

VARIABLES
    head,     \* Node* head
    tail,     \* Node* tail
    size_,    \* std::size_t size_
    heap,     \* address -> Node object or FreeNode
    ub,       \* kinds of undefined behaviour executed so far
    deque,    \* reference deque driven by the same calls
    pushes,   \* number of push calls made
    pops,     \* number of pop calls that returned a value
    lastOp,   \* the last call: its name, argument, result, and whether it threw
    driver,   \* the caller's script position (phase and pops still owed)
    pal       \* the frame of a call of isPalindrome (pt2debugging.cpp)

vars == <<head, tail, size_, heap, ub, deque, pushes, pops, lastOp, driver, pal>>

\* The list object and the heap as one value, so that the operations are
\* functions from state to state.
Cur == [head |-> head, tail |-> tail, size_ |-> size_, heap |-> heap, ub |-> ub]

Live(st, p) == p \in DOMAIN st.heap /\ st.heap[p].live

LiveSet(st) == {p \in DOMAIN st.heap : st.heap[p].live}

\* Addresses operator new may return: any storage holding no live object.
FreeAddrs(st) == {p \in DOMAIN st.heap : ~st.heap[p].live}

\* Dereferencing p: a null pointer or a deleted node is undefined behaviour.
Deref(st, p) ==
    IF Live(st, p) THEN st
    ELSE [st EXCEPT !.ub = @ \cup {IF p = NULL THEN "null_deref" ELSE "use_after_free"}]

\* new Node(value), placed at address n
New(st, n, value) == [st EXCEPT !.heap[n] = Node(value)]

\* delete p: deleting a null pointer does nothing, deleting a node that is
\* not live is a double free.
Delete(st, p) ==
    IF p = NULL THEN st
    ELSE IF Live(st, p) THEN [st EXCEPT !.heap[p] = FreeNode]
    ELSE [st EXCEPT !.ub = @ \cup {"double_free"}]

\* p->data, p->next, p->prev (reads)
GetData(st, p) == IF Live(st, p) THEN st.heap[p].data ELSE 0
GetNext(st, p) == IF Live(st, p) THEN st.heap[p].next ELSE NULL
GetPrev(st, p) == IF Live(st, p) THEN st.heap[p].prev ELSE NULL

\* p->next = q, p->prev = q (writes)
SetNext(st, p, q) ==
    IF Live(st, p) THEN [st EXCEPT !.heap[p].next = q] ELSE Deref(st, p)
SetPrev(st, p, q) ==
    IF Live(st, p) THEN [st EXCEPT !.heap[p].prev = q] ELSE Deref(st, p)

\* ------------------------------------------------------------- operations
\* std::size_t size() const
size(st) == st.size_

\* bool empty() const
empty(st) == st.size_ = 0

\* push_front without "if (!tail) tail = n"
PushFront_NoTail(st, value, n) ==
    LET s1 == New(st, n, value)
        s2 == SetNext(s1, n, s1.head)
        s3 == IF s2.head # NULL THEN SetPrev(s2, s2.head, n) ELSE s2
        s4 == [s3 EXCEPT !.head = n]
    IN  [s4 EXCEPT !.size_ = (@ + 1) % SizeMod]

\* push_front without "if (head) head->prev = n"
PushFront_NoBackLink(st, value, n) ==
    LET s1 == New(st, n, value)
        s2 == SetNext(s1, n, s1.head)
        s4 == [s2 EXCEPT !.head = n]
        s5 == IF s4.tail = NULL THEN [s4 EXCEPT !.tail = n] ELSE s4
    IN  [s5 EXCEPT !.size_ = (@ + 1) % SizeMod]

\* void DoublyLinkedList::push_front(int value), the new node at address n
PushFront(st, value, n) ==
    LET s1 == New(st, n, value)
        s2 == SetNext(s1, n, s1.head)
        s3 == IF s2.head # NULL THEN SetPrev(s2, s2.head, n) ELSE s2
        s4 == [s3 EXCEPT !.head = n]
        s5 == IF s4.tail = NULL THEN [s4 EXCEPT !.tail = n] ELSE s4
    IN  [s5 EXCEPT !.size_ = (@ + 1) % SizeMod]

\* push_back without "if (!head) head = n"
PushBack_NoHead(st, value, n) ==
    LET s1 == New(st, n, value)
        s2 == SetPrev(s1, n, s1.tail)
        s3 == IF s2.tail # NULL THEN SetNext(s2, s2.tail, n) ELSE s2
        s4 == [s3 EXCEPT !.tail = n]
    IN  [s4 EXCEPT !.size_ = (@ + 1) % SizeMod]

\* push_back without "if (tail) tail->next = n"
PushBack_NoLink(st, value, n) ==
    LET s1 == New(st, n, value)
        s2 == SetPrev(s1, n, s1.tail)
        s4 == [s2 EXCEPT !.tail = n]
        s5 == IF s4.head = NULL THEN [s4 EXCEPT !.head = n] ELSE s4
    IN  [s5 EXCEPT !.size_ = (@ + 1) % SizeMod]

\* void DoublyLinkedList::push_back(int value), the new node at address n
PushBack(st, value, n) ==
    LET s1 == New(st, n, value)
        s2 == SetPrev(s1, n, s1.tail)
        s3 == IF s2.tail # NULL THEN SetNext(s2, s2.tail, n) ELSE s2
        s4 == [s3 EXCEPT !.tail = n]
        s5 == IF s4.head = NULL THEN [s4 EXCEPT !.head = n] ELSE s4
    IN  [s5 EXCEPT !.size_ = (@ + 1) % SizeMod]

\* pop_front without "if (empty()) throw"
PopFront_NoCheck(st) ==
    LET n   == st.head
        val == GetData(st, n)
        s1  == [Deref(st, n) EXCEPT !.head = GetNext(st, n)]
        s2  == IF s1.head # NULL THEN SetPrev(s1, s1.head, NULL)
               ELSE [s1 EXCEPT !.tail = NULL]
        s3  == Delete(s2, n)
        s4  == [s3 EXCEPT !.size_ = (@ + SizeMod - 1) % SizeMod]
    IN  [st |-> s4, ret |-> <<val>>, err |-> FALSE]

\* pop_front without "if (head) head->prev = nullptr"
PopFront_KeepPrev(st) ==
    IF empty(st) THEN [st |-> st, ret |-> <<>>, err |-> TRUE]
    ELSE
    LET n   == st.head
        val == GetData(st, n)
        s1  == [Deref(st, n) EXCEPT !.head = GetNext(st, n)]
        s2  == IF s1.head # NULL THEN s1 ELSE [s1 EXCEPT !.tail = NULL]
        s3  == Delete(s2, n)
        s4  == [s3 EXCEPT !.size_ = (@ + SizeMod - 1) % SizeMod]
    IN  [st |-> s4, ret |-> <<val>>, err |-> FALSE]

\* pop_front without "delete n"
PopFront_NoDelete(st) ==
    IF empty(st) THEN [st |-> st, ret |-> <<>>, err |-> TRUE]
    ELSE
    LET n   == st.head
        val == GetData(st, n)
        s1  == [Deref(st, n) EXCEPT !.head = GetNext(st, n)]
        s2  == IF s1.head # NULL THEN SetPrev(s1, s1.head, NULL)
               ELSE [s1 EXCEPT !.tail = NULL]
        s4  == [s2 EXCEPT !.size_ = (@ + SizeMod - 1) % SizeMod]
    IN  [st |-> s4, ret |-> <<val>>, err |-> FALSE]

\* pop_front without "else tail = nullptr"
PopFront_KeepTail(st) ==
    IF empty(st) THEN [st |-> st, ret |-> <<>>, err |-> TRUE]
    ELSE
    LET n   == st.head
        val == GetData(st, n)
        s1  == [Deref(st, n) EXCEPT !.head = GetNext(st, n)]
        s2  == IF s1.head # NULL THEN SetPrev(s1, s1.head, NULL) ELSE s1
        s3  == Delete(s2, n)
        s4  == [s3 EXCEPT !.size_ = (@ + SizeMod - 1) % SizeMod]
    IN  [st |-> s4, ret |-> <<val>>, err |-> FALSE]

\* int DoublyLinkedList::pop_front(): the state after the call, the value
\* returned (<<>> when it throws) and whether std::underflow_error was thrown.
PopFront(st) ==
    IF empty(st) THEN [st |-> st, ret |-> <<>>, err |-> TRUE]
    ELSE
    LET n   == st.head
        val == GetData(st, n)
        s1  == [Deref(st, n) EXCEPT !.head = GetNext(st, n)]
        s2  == IF s1.head # NULL THEN SetPrev(s1, s1.head, NULL)
               ELSE [s1 EXCEPT !.tail = NULL]
        s3  == Delete(s2, n)
        s4  == [s3 EXCEPT !.size_ = (@ + SizeMod - 1) % SizeMod]
    IN  [st |-> s4, ret |-> <<val>>, err |-> FALSE]

\* pop_back reading n->data after tail has moved: "val = tail->data"
PopBack_LateRead(st) ==
    IF empty(st) THEN [st |-> st, ret |-> <<>>, err |-> TRUE]
    ELSE
    LET n   == st.tail
        s1  == [Deref(st, n) EXCEPT !.tail = GetPrev(st, n)]
        val == GetData(s1, s1.tail)
        s2  == IF s1.tail # NULL THEN SetNext(s1, s1.tail, NULL)
               ELSE [s1 EXCEPT !.head = NULL]
        s3  == Delete(s2, n)
        s4  == [s3 EXCEPT !.size_ = (@ + SizeMod - 1) % SizeMod]
    IN  [st |-> s4, ret |-> <<val>>, err |-> FALSE]

\* pop_back without "else head = nullptr"
PopBack_KeepHead(st) ==
    IF empty(st) THEN [st |-> st, ret |-> <<>>, err |-> TRUE]
    ELSE
    LET n   == st.tail
        val == GetData(st, n)
        s1  == [Deref(st, n) EXCEPT !.tail = GetPrev(st, n)]
        s2  == IF s1.tail # NULL THEN SetNext(s1, s1.tail, NULL) ELSE s1
        s3  == Delete(s2, n)
        s4  == [s3 EXCEPT !.size_ = (@ + SizeMod - 1) % SizeMod]
    IN  [st |-> s4, ret |-> <<val>>, err |-> FALSE]

\* pop_back without "if (empty()) throw"
PopBack_NoCheck(st) ==
    LET n   == st.tail
        val == GetData(st, n)
        s1  == [Deref(st, n) EXCEPT !.tail = GetPrev(st, n)]
        s2  == IF s1.tail # NULL THEN SetNext(s1, s1.tail, NULL)
               ELSE [s1 EXCEPT !.head = NULL]
        s3  == Delete(s2, n)
        s4  == [s3 EXCEPT !.size_ = (@ + SizeMod - 1) % SizeMod]
    IN  [st |-> s4, ret |-> <<val>>, err |-> FALSE]

\* int DoublyLinkedList::pop_back()
PopBack(st) ==
    IF empty(st) THEN [st |-> st, ret |-> <<>>, err |-> TRUE]
    ELSE
    LET n   == st.tail
        val == GetData(st, n)
        s1  == [Deref(st, n) EXCEPT !.tail = GetPrev(st, n)]
        s2  == IF s1.tail # NULL THEN SetNext(s1, s1.tail, NULL)
               ELSE [s1 EXCEPT !.head = NULL]
        s3  == Delete(s2, n)
        s4  == [s3 EXCEPT !.size_ = (@ + SizeMod - 1) % SizeMod]
    IN  [st |-> s4, ret |-> <<val>>, err |-> FALSE]

\* A destructor iteration with the delete first: "delete cur; cur = cur->next"
DtorIter_DeleteFirst(st, cur) ==
    LET s1   == Delete(st, cur)
        s2   == Deref(s1, cur)
        next == GetNext(s1, cur)
    IN  [st |-> s2, cur |-> next]

\* One iteration of the loop of ~DoublyLinkedList():
\*     Node* next = cur->next;  delete cur;  cur = next;
DtorIter(st, cur) ==
    LET next == GetNext(st, cur)
        s1   == Deref(st, cur)
        s2   == Delete(s1, cur)
    IN  [st |-> s2, cur |-> next]

\* ------------------------------------------------------------- traversals
\* for (Node* cur = head; cur; cur = cur->next): the nodes visited, in order.
\* fuel cuts a walk that does not end (a cycle) or leaves the live nodes.
RECURSIVE WalkNext(_, _, _)
WalkNext(st, cur, fuel) ==
    IF cur = NULL \/ fuel = 0 \/ ~Live(st, cur) THEN <<>>
    ELSE <<cur>> \o WalkNext(st, st.heap[cur].next, fuel - 1)

\* for (Node* cur = tail; cur; cur = cur->prev)
RECURSIVE WalkPrev(_, _, _)
WalkPrev(st, cur, fuel) ==
    IF cur = NULL \/ fuel = 0 \/ ~Live(st, cur) THEN <<>>
    ELSE <<cur>> \o WalkPrev(st, st.heap[cur].prev, fuel - 1)

Fuel(st) == Cardinality(DOMAIN st.heap) + 1

FwdNodes(st) == WalkNext(st, st.head, Fuel(st))
BwdNodes(st) == WalkPrev(st, st.tail, Fuel(st))

\* What print_forward / print_backward write: the data of the nodes visited.
FwdVals(st) == [i \in 1 .. Len(FwdNodes(st)) |-> st.heap[FwdNodes(st)[i]].data]
BwdVals(st) == [i \in 1 .. Len(BwdNodes(st)) |-> st.heap[BwdNodes(st)[i]].data]

\* A walk ends properly when the link after the last node visited is null.
FwdEnds(st) ==
    LET w == FwdNodes(st)
    IN  IF w = <<>> THEN st.head = NULL ELSE st.heap[w[Len(w)]].next = NULL
BwdEnds(st) ==
    LET w == BwdNodes(st)
    IN  IF w = <<>> THEN st.tail = NULL ELSE st.heap[w[Len(w)]].prev = NULL

\* print_forward walking with head itself: "for (; head; head = head->next)"
PrintForward_MovesHead(st) == [st |-> [st EXCEPT !.head = NULL], out |-> FwdVals(st)]

\* void print_forward() const: the state after the call and the values written
PrintForward(st) == [st |-> st, out |-> FwdVals(st)]

\* void print_backward() const
PrintBackward(st) == [st |-> st, out |-> BwdVals(st)]

Reverse(s) == [i \in 1 .. Len(s) |-> s[Len(s) + 1 - i]]

\* -------------------------------------------------------- reference deque
DequePushFront(d, v) == <<v>> \o d
DequePushBack(d, v)  == Append(d, v)
DequePopFront(d)     == IF d = <<>> THEN d ELSE Tail(d)
DequePopBack(d)      == IF d = <<>> THEN d ELSE SubSeq(d, 1, Len(d) - 1)

\* ----------------------------------------------------------- isPalindrome
\* Longest string given to isPalindrome.
MaxStrLen == 5

Alphabet == {"a", "b"}

\* const std::string& s: a string is the sequence of its characters.
Strings == UNION {[1 .. n -> Alphabet] : n \in 0 .. MaxStrLen}

\* No call of isPalindrome is running.
NoFrame == [pc |-> "idle", s |-> <<>>, l |-> 0, r |-> 0, ret |-> FALSE, reads |-> {}]

\* What s[i] can give.  Below s.size() it is the character; at s.size() it is
\* the terminating null character; beyond, the read is out of bounds and
\* undefined: any character, or a fault.
CharAt(str, i) ==
    IF i < Len(str) THEN {str[i + 1]}
    ELSE IF i = Len(str) THEN {"nul"}
    ELSE Alphabet \cup {"nul", "fault"}

InBounds(str, i) == i <= Len(str)

\* ---------------------------------------------------------------- actions
Install(st) ==
    /\ head'  = st.head
    /\ tail'  = st.tail
    /\ size_' = st.size_
    /\ heap'  = st.heap
    /\ ub'    = st.ub

NoOp == [op |-> "none", arg |-> <<>>, ret |-> <<>>, err |-> FALSE]

\* What a caller can observe of the list: both traversals and size().
Observe(st) == [fwd |-> FwdVals(st), bwd |-> BwdVals(st), size |-> size(st)]

\* The caller before it has called anything.
Caller(phase) ==
    [phase |-> phase, f |-> 0, b |-> 0, qf |-> 0, qb |-> 0, v |-> <<>>,
     snap |-> [fwd |-> <<>>, bwd |-> <<>>, size |-> 0]]

\* DoublyLinkedList() : head(nullptr), tail(nullptr), size_(0)
InitList ==
    /\ head = NULL
    /\ tail = NULL
    /\ size_ = 0
    /\ heap = [n \in Addr |-> FreeNode]
    /\ ub = {}
    /\ deque = <<>>
    /\ pushes = 0
    /\ pops = 0
    /\ lastOp = NoOp
    /\ pal = NoFrame

Init == InitList /\ driver = Caller("free")

push_front(value) ==
    /\ pushes < MaxPushes
    /\ \E n \in FreeAddrs(Cur) : Install(PushFront(Cur, value, n))
    /\ deque' = DequePushFront(deque, value)
    /\ pushes' = pushes + 1
    /\ pops' = pops
    /\ lastOp' = [op |-> "push_front", arg |-> <<value>>, ret |-> <<>>, err |-> FALSE]
    /\ UNCHANGED pal

push_back(value) ==
    /\ pushes < MaxPushes
    /\ \E n \in FreeAddrs(Cur) : Install(PushBack(Cur, value, n))
    /\ deque' = DequePushBack(deque, value)
    /\ pushes' = pushes + 1
    /\ pops' = pops
    /\ lastOp' = [op |-> "push_back", arg |-> <<value>>, ret |-> <<>>, err |-> FALSE]
    /\ UNCHANGED pal

pop_front ==
    LET r == PopFront(Cur)
    IN  /\ Install(r.st)
        /\ deque' = DequePopFront(deque)
        /\ pushes' = pushes
        /\ pops' = IF r.err THEN pops ELSE pops + 1
        /\ lastOp' = [op |-> "pop_front", arg |-> <<>>, ret |-> r.ret, err |-> r.err]
        /\ UNCHANGED pal

pop_back ==
    LET r == PopBack(Cur)
    IN  /\ Install(r.st)
        /\ deque' = DequePopBack(deque)
        /\ pushes' = pushes
        /\ pops' = IF r.err THEN pops ELSE pops + 1
        /\ lastOp' = [op |-> "pop_back", arg |-> <<>>, ret |-> r.ret, err |-> r.err]
        /\ UNCHANGED pal

\* Any caller: the four operations in any order with any arguments.
CallPushFront == \E v \in Values : push_front(v) /\ UNCHANGED driver
CallPushBack  == \E v \in Values : push_back(v) /\ UNCHANGED driver
CallPopFront  == pop_front /\ UNCHANGED driver
CallPopBack   == pop_back /\ UNCHANGED driver

Next ==
    \/ CallPushFront
    \/ CallPushBack
    \/ CallPopFront
    \/ CallPopBack

Spec == Init /\ [][Next]_vars

\* A caller that, in any state it has reached, pushes a value at one end and
\* pops at the same end at once, remembering what it observed before.
InitPair == InitList /\ driver = Caller("any")

PairAnyPushFront == driver.phase = "any" /\ CallPushFront
PairAnyPushBack  == driver.phase = "any" /\ CallPushBack
PairAnyPopFront  == driver.phase = "any" /\ CallPopFront
PairAnyPopBack   == driver.phase = "any" /\ CallPopBack

PairPushFront ==
    /\ driver.phase = "any"
    /\ \E v \in Values :
          /\ push_front(v)
          /\ driver' = [driver EXCEPT !.phase = "pushed_front", !.v = <<v>>,
                                       !.snap = Observe(Cur)]

PairPushBack ==
    /\ driver.phase = "any"
    /\ \E v \in Values :
          /\ push_back(v)
          /\ driver' = [driver EXCEPT !.phase = "pushed_back", !.v = <<v>>,
                                       !.snap = Observe(Cur)]

PairPopFront ==
    /\ driver.phase = "pushed_front"
    /\ pop_front
    /\ driver' = [driver EXCEPT !.phase = "popped_front"]

PairPopBack ==
    /\ driver.phase = "pushed_back"
    /\ pop_back
    /\ driver' = [driver EXCEPT !.phase = "popped_back"]

NextPair ==
    \/ PairAnyPushFront
    \/ PairAnyPushBack
    \/ PairAnyPopFront
    \/ PairAnyPopBack
    \/ PairPushFront
    \/ PairPushBack
    \/ PairPopFront
    \/ PairPopBack

SpecPair == InitPair /\ [][NextPair]_vars

\* A caller that first pushes, f times at the front and b times at the back
\* in any order, and then pops, f times at the front and b times at the back
\* in any order.
InitDrain == InitList /\ driver = Caller("pushing")

DrainPushFront ==
    /\ driver.phase = "pushing"
    /\ \E v \in Values : push_front(v)
    /\ driver' = [driver EXCEPT !.f = @ + 1]

DrainPushBack ==
    /\ driver.phase = "pushing"
    /\ \E v \in Values : push_back(v)
    /\ driver' = [driver EXCEPT !.b = @ + 1]

DrainTurn ==
    /\ driver.phase = "pushing"
    /\ driver' = [driver EXCEPT !.phase = "popping"]
    /\ UNCHANGED <<head, tail, size_, heap, ub, deque, pushes, pops, lastOp, pal>>

DrainPopFront ==
    /\ driver.phase = "popping"
    /\ driver.qf < driver.f
    /\ pop_front
    /\ driver' = [driver EXCEPT !.qf = @ + 1]

DrainPopBack ==
    /\ driver.phase = "popping"
    /\ driver.qb < driver.b
    /\ pop_back
    /\ driver' = [driver EXCEPT !.qb = @ + 1]

NextDrain ==
    \/ DrainPushFront
    \/ DrainPushBack
    \/ DrainTurn
    \/ DrainPopFront
    \/ DrainPopBack

SpecDrain == InitDrain /\ [][NextDrain]_vars

\* A caller that mixes the four mutating operations with the const members
\* size(), empty(), print_forward() and print_backward(), and keeps what the
\* last const call gave it.
Watcher(phase, out) == [phase |-> phase, out |-> out]

InitObserve == InitList /\ driver = Watcher("any", <<>>)

ObsPushFront == (\E v \in Values : push_front(v)) /\ driver' = Watcher("any", <<>>)
ObsPushBack  == (\E v \in Values : push_back(v)) /\ driver' = Watcher("any", <<>>)
ObsPopFront  == pop_front /\ driver' = Watcher("any", <<>>)
ObsPopBack   == pop_back /\ driver' = Watcher("any", <<>>)

ObsSize ==
    /\ driver' = Watcher("size", size(Cur))
    /\ UNCHANGED <<head, tail, size_, heap, ub, deque, pushes, pops, lastOp, pal>>

ObsEmpty ==
    /\ driver' = Watcher("empty", empty(Cur))
    /\ UNCHANGED <<head, tail, size_, heap, ub, deque, pushes, pops, lastOp, pal>>

ObsPrintForward ==
    LET r == PrintForward(Cur)
    IN  /\ Install(r.st)
        /\ driver' = Watcher("print_forward", r.out)
        /\ UNCHANGED <<deque, pushes, pops, lastOp, pal>>

ObsPrintBackward ==
    LET r == PrintBackward(Cur)
    IN  /\ Install(r.st)
        /\ driver' = Watcher("print_backward", r.out)
        /\ UNCHANGED <<deque, pushes, pops, lastOp, pal>>

NextObserve ==
    \/ ObsPushFront
    \/ ObsPushBack
    \/ ObsPopFront
    \/ ObsPopBack
    \/ ObsSize
    \/ ObsEmpty
    \/ ObsPrintForward
    \/ ObsPrintBackward

SpecObserve == InitObserve /\ [][NextObserve]_vars

\* The owner of the list: it uses the list in any way and then lets it go
\* out of scope, which runs ~DoublyLinkedList() one loop iteration at a time.
\* cur is the destructor's local, visited counts its iterations.
Owner(phase, cur, visited) == [phase |-> phase, cur |-> cur, visited |-> visited]

InitDestroy == InitList /\ driver = Owner("alive", NULL, 0)

OwnerPushFront == driver.phase = "alive" /\ CallPushFront
OwnerPushBack  == driver.phase = "alive" /\ CallPushBack
OwnerPopFront  == driver.phase = "alive" /\ CallPopFront
OwnerPopBack   == driver.phase = "alive" /\ CallPopBack

\* Node* cur = head;
DtorEnter ==
    /\ driver.phase = "alive"
    /\ driver' = Owner("loop", head, 0)
    /\ UNCHANGED <<head, tail, size_, heap, ub, deque, pushes, pops, lastOp, pal>>

\* while (cur) { ... }
DtorIterate ==
    /\ driver.phase = "loop"
    /\ driver.cur # NULL
    /\ LET r == DtorIter(Cur, driver.cur)
       IN  /\ Install(r.st)
           /\ driver' = Owner("loop", r.cur, driver.visited + 1)
    /\ UNCHANGED <<deque, pushes, pops, lastOp, pal>>

DtorExit ==
    /\ driver.phase = "loop"
    /\ driver.cur = NULL
    /\ driver' = Owner("destroyed", NULL, driver.visited)
    /\ UNCHANGED <<head, tail, size_, heap, ub, deque, pushes, pops, lastOp, pal>>

NextDestroy ==
    \/ OwnerPushFront
    \/ OwnerPushBack
    \/ OwnerPopFront
    \/ OwnerPopBack
    \/ DtorEnter
    \/ DtorIterate
    \/ DtorExit

\* Once entered, the destructor runs on: nothing else can interrupt it.
SpecDestroy ==
    /\ InitDestroy
    /\ [][NextDestroy]_vars
    /\ WF_vars(DtorIterate)
    /\ WF_vars(DtorExit)

\* main(): the calls it makes on dll, in order.
Script ==
    << [op |-> "push_front", v |-> 3],
       [op |-> "push_front", v |-> 2],
       [op |-> "push_front", v |-> 1],
       [op |-> "print_forward", v |-> 0],
       [op |-> "print_backward", v |-> 0],
       [op |-> "push_back", v |-> 4],
       [op |-> "push_back", v |-> 5],
       [op |-> "print_forward", v |-> 0],
       [op |-> "print_backward", v |-> 0],
       [op |-> "pop_front", v |-> 0],
       [op |-> "pop_back", v |-> 0],
       [op |-> "print_forward", v |-> 0],
       [op |-> "size", v |-> 0] >>

\* Storage for as many nodes as main() creates.
DemoAddr == 1 .. Cardinality({i \in 1 .. Len(Script) :
                                Script[i].op \in {"push_front", "push_back"}})

\* main() at call pc of its script; log is what it has written to cout, one
\* entry per call that writes; aborted when an exception escaped main().
Demo(pc, log, aborted) == [pc |-> pc, log |-> log, aborted |-> aborted]

InitDemo ==
    /\ head = NULL
    /\ tail = NULL
    /\ size_ = 0
    /\ heap = [n \in DemoAddr |-> FreeNode]
    /\ ub = {}
    /\ deque = <<>>
    /\ pushes = 0
    /\ pops = 0
    /\ lastOp = NoOp
    /\ pal = NoFrame
    /\ driver = Demo(1, <<>>, FALSE)

DemoAt(op) ==
    /\ ~driver.aborted
    /\ driver.pc \in 1 .. Len(Script)
    /\ Script[driver.pc].op = op

DemoPushFront ==
    /\ DemoAt("push_front")
    /\ push_front(Script[driver.pc].v)
    /\ driver' = Demo(driver.pc + 1, driver.log, FALSE)

DemoPushBack ==
    /\ DemoAt("push_back")
    /\ push_back(Script[driver.pc].v)
    /\ driver' = Demo(driver.pc + 1, driver.log, FALSE)

DemoPopFront ==
    /\ DemoAt("pop_front")
    /\ pop_front
    /\ driver' = Demo(driver.pc + 1, Append(driver.log, lastOp'.ret), lastOp'.err)

DemoPopBack ==
    /\ DemoAt("pop_back")
    /\ pop_back
    /\ driver' = Demo(driver.pc + 1, Append(driver.log, lastOp'.ret), lastOp'.err)

DemoPrintForward ==
    /\ DemoAt("print_forward")
    /\ LET r == PrintForward(Cur)
       IN  /\ Install(r.st)
           /\ driver' = Demo(driver.pc + 1, Append(driver.log, r.out), FALSE)
    /\ UNCHANGED <<deque, pushes, pops, lastOp, pal>>

DemoPrintBackward ==
    /\ DemoAt("print_backward")
    /\ LET r == PrintBackward(Cur)
       IN  /\ Install(r.st)
           /\ driver' = Demo(driver.pc + 1, Append(driver.log, r.out), FALSE)
    /\ UNCHANGED <<deque, pushes, pops, lastOp, pal>>

DemoSize ==
    /\ DemoAt("size")
    /\ driver' = Demo(driver.pc + 1, Append(driver.log, <<size(Cur)>>), FALSE)
    /\ UNCHANGED <<head, tail, size_, heap, ub, deque, pushes, pops, lastOp, pal>>

NextDemo ==
    \/ DemoPushFront
    \/ DemoPushBack
    \/ DemoPopFront
    \/ DemoPopBack
    \/ DemoPrintForward
    \/ DemoPrintBackward
    \/ DemoSize

SpecDemo == InitDemo /\ [][NextDemo]_vars

\* bool isPalindrome(const std::string& s), one statement at a time.
\*     std::size_t l = 0;  std::size_t r = s.size() - 1;
isPalindrome(str) ==
    /\ pal.pc = "idle"
    /\ pal' = [pc |-> "while", s |-> str, l |-> 0,
               r |-> (Len(str) + SizeMod - 1) % SizeMod,
               ret |-> FALSE, reads |-> {}]
    /\ UNCHANGED <<head, tail, size_, heap, ub, deque, pushes, pops, lastOp, driver>>

PalCall == \E str \in Strings : isPalindrome(str)

\*     while (l < r)  ...  return true;
PalWhile ==
    /\ pal.pc = "while"
    /\ pal' = IF pal.l < pal.r THEN [pal EXCEPT !.pc = "if"]
              ELSE [pal EXCEPT !.pc = "done", !.ret = TRUE]
    /\ UNCHANGED <<head, tail, size_, heap, ub, deque, pushes, pops, lastOp, driver>>

\*     if (s[l] != s[r]) return false;
\* After an out-of-bounds read the behaviour is undefined: the call faults
\* or returns either value.
PalIf ==
    /\ pal.pc = "if"
    /\ \E a \in CharAt(pal.s, pal.l), b \in CharAt(pal.s, pal.r), any \in BOOLEAN :
          pal' = [pal EXCEPT
                    !.reads = @ \cup {pal.l, pal.r},
                    !.pc = IF "fault" \in {a, b} THEN "fault"
                           ELSE IF ~(InBounds(pal.s, pal.l) /\ InBounds(pal.s, pal.r))
                           THEN "done"
                           ELSE IF a # b THEN "done" ELSE "step",
                    !.ret = IF ~(InBounds(pal.s, pal.l) /\ InBounds(pal.s, pal.r))
                            THEN any ELSE FALSE]
    /\ UNCHANGED <<head, tail, size_, heap, ub, deque, pushes, pops, lastOp, driver>>

\*     ++l;  --r;
PalStep ==
    /\ pal.pc = "step"
    /\ pal' = [pal EXCEPT !.pc = "while",
                          !.l = (@ + 1) % SizeMod,
                          !.r = (@ + SizeMod - 1) % SizeMod]
    /\ UNCHANGED <<head, tail, size_, heap, ub, deque, pushes, pops, lastOp, driver>>

NextPal ==
    \/ PalCall
    \/ PalWhile
    \/ PalIf
    \/ PalStep

SpecPal == Init /\ [][NextPal]_vars

\* ------------------------------------------------------------ two callers
\* Two callers share one list.  An operation runs one statement at a time;
\* ++size_ and --size_ are a load and a store.  loc holds the locals of the
\* operation a caller is in: pc, the next statement, n and val as in the
\* source, tmp the loaded size_.
Threads == {1, 2}

Idle == [pc |-> "idle", op |-> "none", val |-> 0, n |-> NULL, tmp |-> 0, err |-> FALSE]

FirstStmt(op) ==
    CASE op = "push_front" -> "pf1"
      [] op = "push_back"  -> "pb1"
      [] op = "pop_front"  -> "qf1"
      [] op = "pop_back"   -> "qb1"

\* push_front without its statement "head = n"
PushFrontStmt_NoHead(st, loc, a) ==
    CASE loc.pc = "pf1" ->
           [st |-> New(st, a, loc.val), loc |-> [loc EXCEPT !.n = a, !.pc = "pf2"]]
      [] loc.pc = "pf2" ->
           [st |-> SetNext(st, loc.n, st.head), loc |-> [loc EXCEPT !.pc = "pf3"]]
      [] loc.pc = "pf3" ->
           [st |-> IF st.head # NULL THEN SetPrev(st, st.head, loc.n) ELSE st,
            loc |-> [loc EXCEPT !.pc = "pf4"]]
      [] loc.pc = "pf4" ->
           [st |-> st, loc |-> [loc EXCEPT !.pc = "pf5"]]
      [] loc.pc = "pf5" ->
           [st |-> IF st.tail = NULL THEN [st EXCEPT !.tail = loc.n] ELSE st,
            loc |-> [loc EXCEPT !.pc = "pf6"]]
      [] loc.pc = "pf6" ->
           [st |-> st, loc |-> [loc EXCEPT !.tmp = st.size_, !.pc = "pf7"]]
      [] loc.pc = "pf7" ->
           [st |-> [st EXCEPT !.size_ = (loc.tmp + 1) % SizeMod],
            loc |-> [loc EXCEPT !.pc = "done"]]

\* The statement of push_front at loc.pc; a is the address new returns.
PushFrontStmt(st, loc, a) ==
    CASE loc.pc = "pf1" ->
           [st |-> New(st, a, loc.val), loc |-> [loc EXCEPT !.n = a, !.pc = "pf2"]]
      [] loc.pc = "pf2" ->
           [st |-> SetNext(st, loc.n, st.head), loc |-> [loc EXCEPT !.pc = "pf3"]]
      [] loc.pc = "pf3" ->
           [st |-> IF st.head # NULL THEN SetPrev(st, st.head, loc.n) ELSE st,
            loc |-> [loc EXCEPT !.pc = "pf4"]]
      [] loc.pc = "pf4" ->
           [st |-> [st EXCEPT !.head = loc.n], loc |-> [loc EXCEPT !.pc = "pf5"]]
      [] loc.pc = "pf5" ->
           [st |-> IF st.tail = NULL THEN [st EXCEPT !.tail = loc.n] ELSE st,
            loc |-> [loc EXCEPT !.pc = "pf6"]]
      [] loc.pc = "pf6" ->
           [st |-> st, loc |-> [loc EXCEPT !.tmp = st.size_, !.pc = "pf7"]]
      [] loc.pc = "pf7" ->
           [st |-> [st EXCEPT !.size_ = (loc.tmp + 1) % SizeMod],
            loc |-> [loc EXCEPT !.pc = "done"]]

\* The statement of push_back at loc.pc.
PushBackStmt(st, loc, a) ==
    CASE loc.pc = "pb1" ->
           [st |-> New(st, a, loc.val), loc |-> [loc EXCEPT !.n = a, !.pc = "pb2"]]
      [] loc.pc = "pb2" ->
           [st |-> SetPrev(st, loc.n, st.tail), loc |-> [loc EXCEPT !.pc = "pb3"]]
      [] loc.pc = "pb3" ->
           [st |-> IF st.tail # NULL THEN SetNext(st, st.tail, loc.n) ELSE st,
            loc |-> [loc EXCEPT !.pc = "pb4"]]
      [] loc.pc = "pb4" ->
           [st |-> [st EXCEPT !.tail = loc.n], loc |-> [loc EXCEPT !.pc = "pb5"]]
      [] loc.pc = "pb5" ->
           [st |-> IF st.head = NULL THEN [st EXCEPT !.head = loc.n] ELSE st,
            loc |-> [loc EXCEPT !.pc = "pb6"]]
      [] loc.pc = "pb6" ->
           [st |-> st, loc |-> [loc EXCEPT !.tmp = st.size_, !.pc = "pb7"]]
      [] loc.pc = "pb7" ->
           [st |-> [st EXCEPT !.size_ = (loc.tmp + 1) % SizeMod],
            loc |-> [loc EXCEPT !.pc = "done"]]

\* The statement of pop_front at loc.pc.
PopFrontStmt(st, loc) ==
    CASE loc.pc = "qf1" ->
           [st |-> st,
            loc |-> IF empty(st) THEN [loc EXCEPT !.pc = "done", !.err = TRUE]
                    ELSE [loc EXCEPT !.pc = "qf2"]]
      [] loc.pc = "qf2" ->
           [st |-> st, loc |-> [loc EXCEPT !.n = st.head, !.pc = "qf3"]]
      [] loc.pc = "qf3" ->
           [st |-> Deref(st, loc.n),
            loc |-> [loc EXCEPT !.val = GetData(st, loc.n), !.pc = "qf4"]]
      [] loc.pc = "qf4" ->
           [st |-> [Deref(st, st.head) EXCEPT !.head = GetNext(st, st.head)],
            loc |-> [loc EXCEPT !.pc = "qf5"]]
      [] loc.pc = "qf5" ->
           [st |-> IF st.head # NULL THEN SetPrev(st, st.head, NULL)
                   ELSE [st EXCEPT !.tail = NULL],
            loc |-> [loc EXCEPT !.pc = "qf6"]]
      [] loc.pc = "qf6" ->
           [st |-> Delete(st, loc.n), loc |-> [loc EXCEPT !.pc = "qf7"]]
      [] loc.pc = "qf7" ->
           [st |-> st, loc |-> [loc EXCEPT !.tmp = st.size_, !.pc = "qf8"]]
      [] loc.pc = "qf8" ->
           [st |-> [st EXCEPT !.size_ = (loc.tmp + SizeMod - 1) % SizeMod],
            loc |-> [loc EXCEPT !.pc = "done"]]

\* The statement of pop_back at loc.pc.
PopBackStmt(st, loc) ==
    CASE loc.pc = "qb1" ->
           [st |-> st,
            loc |-> IF empty(st) THEN [loc EXCEPT !.pc = "done", !.err = TRUE]
                    ELSE [loc EXCEPT !.pc = "qb2"]]
      [] loc.pc = "qb2" ->
           [st |-> st, loc |-> [loc EXCEPT !.n = st.tail, !.pc = "qb3"]]
      [] loc.pc = "qb3" ->
           [st |-> Deref(st, loc.n),
            loc |-> [loc EXCEPT !.val = GetData(st, loc.n), !.pc = "qb4"]]
      [] loc.pc = "qb4" ->
           [st |-> [Deref(st, st.tail) EXCEPT !.tail = GetPrev(st, st.tail)],
            loc |-> [loc EXCEPT !.pc = "qb5"]]
      [] loc.pc = "qb5" ->
           [st |-> IF st.tail # NULL THEN SetNext(st, st.tail, NULL)
                   ELSE [st EXCEPT !.head = NULL],
            loc |-> [loc EXCEPT !.pc = "qb6"]]
      [] loc.pc = "qb6" ->
           [st |-> Delete(st, loc.n), loc |-> [loc EXCEPT !.pc = "qb7"]]
      [] loc.pc = "qb7" ->
           [st |-> st, loc |-> [loc EXCEPT !.tmp = st.size_, !.pc = "qb8"]]
      [] loc.pc = "qb8" ->
           [st |-> [st EXCEPT !.size_ = (loc.tmp + SizeMod - 1) % SizeMod],
            loc |-> [loc EXCEPT !.pc = "done"]]

\* mode: "setup" while one caller fills the list, then "locked" (an external
\* mutex is held for the length of each operation) or "unlocked"; lock is
\* the caller holding the mutex, 0 when it is free.
Shared(mode, lock, th) == [mode |-> mode, lock |-> lock, th |-> th]

InitConc == InitList /\ driver = Shared("setup", 0, [t \in Threads |-> Idle])

Lowest(S) == CHOOSE n \in S : \A m \in S : n <= m

\* The list is filled by push_back calls before it is shared.  Addresses are
\* interchangeable, so this part takes the lowest free one.
ConcSetup ==
    /\ driver.mode = "setup"
    /\ pushes < MaxPushes
    /\ FreeAddrs(Cur) # {}
    /\ \E v \in Values : Install(PushBack(Cur, v, Lowest(FreeAddrs(Cur))))
    /\ pushes' = pushes + 1
    /\ UNCHANGED <<deque, pops, lastOp, pal, driver>>

ConcShare ==
    /\ driver.mode = "setup"
    /\ \E m \in {"locked", "unlocked"} : driver' = [driver EXCEPT !.mode = m]
    /\ UNCHANGED <<head, tail, size_, heap, ub, deque, pushes, pops, lastOp, pal>>

\* Caller t may run a statement: it holds the mutex, or there is none.
\* A statement with undefined behaviour ends the run: what follows is
\* unconstrained.
MayRun(t) ==
    /\ ub = {}
    /\ driver.th[t].pc \notin {"idle", "done"}
    /\ driver.mode = "unlocked" \/ (driver.mode = "locked" /\ driver.lock = t)

\* Caller t calls one of the operations (taking the mutex first, if any);
\* caller t pushes the value t.
ConcCall(t) ==
    /\ driver.mode \in {"locked", "unlocked"}
    /\ driver.th[t].pc = "idle"
    /\ driver.mode = "locked" => driver.lock = 0
    /\ \E op \in {"push_front", "push_back", "pop_front", "pop_back"} :
          driver' = [driver EXCEPT
                       !.th[t] = [Idle EXCEPT !.pc = FirstStmt(op), !.op = op, !.val = t],
                       !.lock = IF driver.mode = "locked" THEN t ELSE 0]
    /\ UNCHANGED <<head, tail, size_, heap, ub, deque, pushes, pops, lastOp, pal>>

\* The effect of a statement of caller t: the list, t's locals, the mutex
\* (released when the operation returns or throws) and the call counters.
Ran(t, r) ==
    /\ Install(r.st)
    /\ driver' = [driver EXCEPT !.th[t] = r.loc,
                                !.lock = IF r.loc.pc = "done" THEN 0 ELSE @]
    /\ pushes' = IF r.loc.pc = "done" /\ r.loc.op \in {"push_front", "push_back"}
                 THEN pushes + 1 ELSE pushes
    /\ pops' = IF r.loc.pc = "done" /\ r.loc.op \in {"pop_front", "pop_back"} /\ ~r.loc.err
               THEN pops + 1 ELSE pops
    /\ UNCHANGED <<deque, lastOp, pal>>

NewAddrs(loc) == IF loc.pc \in {"pf1", "pb1"} THEN FreeAddrs(Cur) ELSE {NULL}

ConcPushFront(t) ==
    /\ MayRun(t)
    /\ driver.th[t].op = "push_front"
    /\ \E a \in NewAddrs(driver.th[t]) : Ran(t, PushFrontStmt(Cur, driver.th[t], a))

ConcPushBack(t) ==
    /\ MayRun(t)
    /\ driver.th[t].op = "push_back"
    /\ \E a \in NewAddrs(driver.th[t]) : Ran(t, PushBackStmt(Cur, driver.th[t], a))

ConcPopFront(t) ==
    /\ MayRun(t)
    /\ driver.th[t].op = "pop_front"
    /\ Ran(t, PopFrontStmt(Cur, driver.th[t]))

ConcPopBack(t) ==
    /\ MayRun(t)
    /\ driver.th[t].op = "pop_back"
    /\ Ran(t, PopBackStmt(Cur, driver.th[t]))

NextConc ==
    \/ ConcSetup
    \/ ConcShare
    \/ \E t \in Threads : ConcCall(t)
    \/ \E t \in Threads : ConcPushFront(t)
    \/ \E t \in Threads : ConcPushBack(t)
    \/ \E t \in Threads : ConcPopFront(t)
    \/ \E t \in Threads : ConcPopBack(t)

SpecConc == InitConc /\ [][NextConc]_vars

\* ----------------------------------------------------------------- claims
\* C1: after any sequence of the four calls (failed pops included), the
\* values read along next-links from head are the reference deque's contents
\* in order, and the values read along prev-links from tail are that
\* sequence reversed.
C1_RefinesDeque ==
    /\ FwdVals(Cur) = deque
    /\ BwdVals(Cur) = Reverse(deque)

\* A three-element list with a duplicate value, built after earlier pops.
C1_Witness ==
    /\ Len(deque) = 3
    /\ deque[1] = deque[2]
    /\ deque[2] # deque[3]
    /\ pops >= 2
    /\ FwdVals(Cur) = deque

\* C2: between calls the list is in exactly one of two shapes.  Empty: head
\* and tail null, size_ = 0.  Non-empty: head and tail non-null, head->prev
\* and tail->next null, and size_ is the number of nodes on the next-walk
\* from head (which ends at tail) and on the prev-walk from tail (which ends
\* at head).
EmptyShape == head = NULL /\ tail = NULL /\ size_ = 0

NonEmptyShape ==
    /\ Live(Cur, head) /\ Live(Cur, tail)
    /\ heap[head].prev = NULL
    /\ heap[tail].next = NULL
    /\ FwdEnds(Cur) /\ BwdEnds(Cur)
    /\ Len(FwdNodes(Cur)) = size_
    /\ Len(BwdNodes(Cur)) = size_
    /\ FwdNodes(Cur)[size_] = tail
    /\ BwdNodes(Cur)[size_] = head

C2_Shape ==
    /\ EmptyShape \/ NonEmptyShape
    /\ ~(EmptyShape /\ NonEmptyShape)

\* A full list reached after pops at both ends were made.
C2_Witness ==
    /\ NonEmptyShape
    /\ size_ = MaxNodes
    /\ pops >= 2
    /\ lastOp.op = "push_front"

\* C3: the links of the nodes in the list are mutual (a->next = b exactly
\* when b->prev = a); every node but head has as prev its predecessor in
\* forward order, every node but tail has as next its successor.
InList == {FwdNodes(Cur)[i] : i \in 1 .. Len(FwdNodes(Cur))}

C3_MutualLinks ==
    LET w == FwdNodes(Cur)
    IN  /\ \A a, b \in InList : (heap[a].next = b) <=> (heap[b].prev = a)
        /\ \A i \in 1 .. Len(w) :
              /\ w[i] # head => (i > 1 /\ heap[w[i]].prev = w[i - 1])
              /\ w[i] # tail => (i < Len(w) /\ heap[w[i]].next = w[i + 1])

\* A list with an inner node, after a pop at each kind of end.
C3_Witness ==
    /\ Len(FwdNodes(Cur)) = 3
    /\ heap[FwdNodes(Cur)[2]].prev = head
    /\ heap[FwdNodes(Cur)[2]].next = tail
    /\ pops >= 1
    /\ lastOp.op = "push_back"

\* C4: size() is the number of push calls minus the number of pop calls that
\* returned a value; a pop that throws leaves size() as it was, and the
\* counter never wraps below 0.
C4_SizeCount ==
    /\ [](size(Cur) = pushes - pops /\ size(Cur) <= pushes)
    /\ [][lastOp'.err => size(Cur)' = size(Cur)]_vars

\* An underflow on a list that was used and emptied before.
C4_Witness ==
    /\ lastOp.err
    /\ pushes >= 2
    /\ pops = pushes
    /\ size(Cur) = 0

\* C5: on an empty list pop_front() and pop_back() throw the underflow
\* error, return no value, destroy no node and leave head, tail, size_ and
\* the nodes as they were; the list can be pushed to afterwards.
IsPop(o) == o.op \in {"pop_front", "pop_back"}

C5_UnderflowStep ==
    (IsPop(lastOp') /\ head = NULL) =>
        /\ lastOp'.err
        /\ lastOp'.ret = <<>>
        /\ UNCHANGED <<head, tail, size_, heap, ub>>
        /\ head' = NULL /\ tail' = NULL
        /\ size(Cur)' = 0 /\ empty(Cur)'

C5_UsableAfter ==
    (lastOp.err /\ pushes < MaxPushes) =>
        /\ ENABLED CallPushFront
        /\ ENABLED CallPushBack
        /\ \A v \in Values : \A n \in FreeAddrs(Cur) :
              /\ FwdVals(PushFront(Cur, v, n)) = <<v>>
              /\ FwdVals(PushBack(Cur, v, n)) = <<v>>

C5_Underflow ==
    /\ [][C5_UnderflowStep]_vars
    /\ []C5_UsableAfter
    /\ [](lastOp.err => head = NULL)

\* pop_front() has thrown on a list emptied by earlier pops, pushes remain.
C5_Witness ==
    /\ lastOp.op = "pop_front"
    /\ lastOp.err
    /\ pops >= 2
    /\ pushes < MaxPushes

\* C6: on a non-empty list pop_front() returns head's value, decrements
\* size_ by one and removes the first element of the forward sequence, the
\* rest unchanged; with one element head and tail become null, otherwise
\* head's successor becomes head with a null prev and tail is unchanged.
\* pop_back() is the mirror image at the tail.
C6_PopFrontStep ==
    (lastOp'.op = "pop_front" /\ head # NULL) =>
        /\ ~lastOp'.err
        /\ lastOp'.ret = <<heap[head].data>>
        /\ size_' = size_ - 1
        /\ FwdNodes(Cur)' = Tail(FwdNodes(Cur))
        /\ FwdVals(Cur)' = Tail(FwdVals(Cur))
        /\ IF Len(FwdNodes(Cur)) = 1
           THEN head' = NULL /\ tail' = NULL
           ELSE /\ head' = heap[head].next
                /\ heap'[head'].prev = NULL
                /\ tail' = tail

C6_PopBackStep ==
    (lastOp'.op = "pop_back" /\ tail # NULL) =>
        /\ ~lastOp'.err
        /\ lastOp'.ret = <<heap[tail].data>>
        /\ size_' = size_ - 1
        /\ FwdNodes(Cur)' = SubSeq(FwdNodes(Cur), 1, Len(FwdNodes(Cur)) - 1)
        /\ FwdVals(Cur)' = SubSeq(FwdVals(Cur), 1, Len(FwdVals(Cur)) - 1)
        /\ IF Len(FwdNodes(Cur)) = 1
           THEN head' = NULL /\ tail' = NULL
           ELSE /\ tail' = heap[tail].prev
                /\ heap'[tail'].next = NULL
                /\ head' = head

C6_Pop == [][C6_PopFrontStep /\ C6_PopBackStep]_vars

\* pop_front() has just returned a value from a three-element list.
C6_Witness ==
    /\ lastOp.op = "pop_front"
    /\ ~lastOp.err
    /\ Len(lastOp.ret) = 1
    /\ size_ = MaxNodes - 1
    /\ head # tail

\* C7: push_front(v) does not fail, creates exactly one node, holding v,
\* which becomes head, increments size_ by one, changes tail only when the
\* list was empty (tail is then the new node) and puts v in front of the
\* unchanged old forward sequence.  push_back(v) is the mirror image.
C7_PushFrontStep ==
    lastOp'.op = "push_front" =>
        /\ ~lastOp'.err
        /\ head' \notin LiveSet(Cur)
        /\ LiveSet(Cur)' = LiveSet(Cur) \cup {head'}
        /\ <<heap'[head'].data>> = lastOp'.arg
        /\ size_' = size_ + 1
        /\ tail' = (IF head = NULL THEN head' ELSE tail)
        /\ FwdNodes(Cur)' = <<head'>> \o FwdNodes(Cur)
        /\ FwdVals(Cur)' = lastOp'.arg \o FwdVals(Cur)

C7_PushBackStep ==
    lastOp'.op = "push_back" =>
        /\ ~lastOp'.err
        /\ tail' \notin LiveSet(Cur)
        /\ LiveSet(Cur)' = LiveSet(Cur) \cup {tail'}
        /\ <<heap'[tail'].data>> = lastOp'.arg
        /\ size_' = size_ + 1
        /\ head' = (IF tail = NULL THEN tail' ELSE head)
        /\ FwdNodes(Cur)' = FwdNodes(Cur) \o <<tail'>>
        /\ FwdVals(Cur)' = FwdVals(Cur) \o lastOp'.arg

C7_Push == [][C7_PushFrontStep /\ C7_PushBackStep]_vars

\* push_back(v) has just filled the heap, on a list that saw pops before.
C7_Witness ==
    /\ lastOp.op = "push_back"
    /\ size_ = MaxNodes
    /\ pops >= 1
    /\ <<heap[tail].data>> = lastOp.arg

\* C10: every successful pop destroys exactly one node, the removed end
\* node, and no node is destroyed twice; after every call no destroyed node
\* is referenced by head, tail or a link of a node in the list, and the
\* nodes created and not destroyed are exactly those reached from head.
NullOrLive(p) == p = NULL \/ Live(Cur, p)

C10_NoDangling ==
    /\ ub = {}
    /\ NullOrLive(head) /\ NullOrLive(tail)
    /\ \A p \in InList : NullOrLive(heap[p].prev) /\ NullOrLive(heap[p].next)
    /\ LiveSet(Cur) = InList

C10_DestroyStep ==
    /\ (lastOp'.op = "pop_front" /\ ~lastOp'.err) =>
          (head \in LiveSet(Cur) /\ LiveSet(Cur)' = LiveSet(Cur) \ {head})
    /\ (lastOp'.op = "pop_back" /\ ~lastOp'.err) =>
          (tail \in LiveSet(Cur) /\ LiveSet(Cur)' = LiveSet(Cur) \ {tail})
    /\ (~IsPop(lastOp') \/ lastOp'.err) => LiveSet(Cur) \subseteq LiveSet(Cur)'

C10_Ownership ==
    /\ []C10_NoDangling
    /\ [][C10_DestroyStep]_vars

\* A pop has destroyed an end node of a list whose storage was reused.
C10_Witness ==
    /\ lastOp.op = "pop_back"
    /\ ~lastOp.err
    /\ pops >= 2
    /\ pushes = MaxPushes
    /\ Cardinality(LiveSet(Cur)) = 2

\* C8: in any reachable state push_front(v) followed at once by pop_front()
\* returns v, and push_back(v) followed at once by pop_back() returns v;
\* afterwards the forward sequence, the backward sequence and size() are
\* what they were before the push.
C8_PushPop ==
    driver.phase \in {"popped_front", "popped_back"} =>
        /\ ~lastOp.err
        /\ lastOp.ret = driver.v
        /\ Observe(Cur) = driver.snap

\* push_back(v); pop_back() done on a list of two elements left by pops.
C8_Witness ==
    /\ driver.phase = "popped_back"
    /\ lastOp.op = "pop_back"
    /\ lastOp.ret = driver.v
    /\ driver.snap.size = 2
    /\ pops >= 2

\* C9: f push_front and b push_back calls in any order, followed by f
\* pop_front and b pop_back calls in any order, raise no underflow and leave
\* the list empty: size() = 0, empty(), head and tail null.
C9_Drained ==
    /\ driver.phase = "popping"
    /\ driver.qf = driver.f
    /\ driver.qb = driver.b

C9_Drain ==
    /\ ~lastOp.err
    /\ pops = driver.qf + driver.qb
    /\ C9_Drained => (size(Cur) = 0 /\ empty(Cur) /\ head = NULL /\ tail = NULL)

\* Two front pushes and a back push, drained with the back pop coming last.
C9_Witness ==
    /\ C9_Drained
    /\ driver.f = 2
    /\ driver.b = 1
    /\ lastOp.op = "pop_back"
    /\ head = NULL

\* C15: head and tail are the same node exactly when size_ = 1, head is null
\* exactly when tail is null, and both are null exactly when size_ = 0; a
\* single element pushed at one end is removed by a pop at the other end,
\* which returns it and leaves head = tail = null.
C15_Ends ==
    /\ (head # NULL /\ head = tail) <=> (size_ = 1)
    /\ (head = NULL) <=> (tail = NULL)
    /\ (head = NULL /\ tail = NULL) <=> (size_ = 0)

C15_CrossStep ==
    /\ (lastOp.op = "push_front" /\ size_ = 1 /\ lastOp'.op = "pop_back") =>
          (~lastOp'.err /\ lastOp'.ret = lastOp.arg /\ head' = NULL /\ tail' = NULL)
    /\ (lastOp.op = "push_back" /\ size_ = 1 /\ lastOp'.op = "pop_front") =>
          (~lastOp'.err /\ lastOp'.ret = lastOp.arg /\ head' = NULL /\ tail' = NULL)

C15_SingleNode ==
    /\ []C15_Ends
    /\ [][C15_CrossStep]_vars

\* A single node, head = tail, left over after earlier pushes and pops.
C15_Witness ==
    /\ size_ = 1
    /\ head = tail
    /\ head # NULL
    /\ pops >= 2
    /\ lastOp.op = "pop_back"

\* C12: size(), empty(), print_forward() and print_backward() change neither
\* head, tail, size_ nor any node; empty() is true exactly when size() = 0,
\* which is exactly when head is null; a traversal ends after visiting
\* exactly size() nodes, and run again at once it gives the same values.
ConstCalls == {"size", "empty", "print_forward", "print_backward"}

C12_FrameStep ==
    driver'.phase \in ConstCalls => UNCHANGED <<head, tail, size_, heap, ub>>

C12_AgainStep ==
    (driver.phase = driver'.phase /\ driver.phase \in {"print_forward", "print_backward"})
        => driver'.out = driver.out

C12_Results ==
    /\ driver.phase = "size" => driver.out = Len(FwdNodes(Cur))
    /\ driver.phase = "empty" =>
          /\ driver.out <=> (size(Cur) = 0)
          /\ driver.out <=> (head = NULL)
    /\ driver.phase = "print_forward" =>
          /\ Len(driver.out) = size(Cur)
          /\ FwdEnds(Cur)
          /\ PrintForward(Cur).out = driver.out
    /\ driver.phase = "print_backward" =>
          /\ Len(driver.out) = size(Cur)
          /\ BwdEnds(Cur)
          /\ PrintBackward(Cur).out = driver.out

C12_ConstCalls ==
    /\ []C12_Results
    /\ [][C12_FrameStep /\ C12_AgainStep]_vars

\* print_forward() has written three values of a list that saw pops.
C12_Witness ==
    /\ driver.phase = "print_forward"
    /\ Len(driver.out) = 3
    /\ driver.out = deque
    /\ pops >= 1

\* C11: destroying the list in any reachable state, the destructor's loop
\* ends after exactly size_ iterations, deletes every remaining node exactly
\* once and never reads a link of a deleted node; over the list's lifetime
\* every node created is deleted exactly once.
C11_DtorInv ==
    /\ driver.phase \in {"loop", "destroyed"} =>
          /\ ub = {}
          /\ driver.cur = NULL \/ Live(Cur, driver.cur)
          /\ driver.visited + Cardinality(LiveSet(Cur)) = size_
    /\ driver.phase = "destroyed" =>
          /\ driver.visited = size_
          /\ LiveSet(Cur) = {}
          /\ pushes = pops + driver.visited

C11_DtorStep ==
    (driver.phase = "loop" /\ driver'.phase = "loop") =>
        /\ driver.cur \in LiveSet(Cur)
        /\ LiveSet(Cur)' = LiveSet(Cur) \ {driver.cur}
        /\ driver'.cur = heap[driver.cur].next

C11_Destructor ==
    /\ []C11_DtorInv
    /\ [][C11_DtorStep]_vars
    /\ (driver.phase = "loop") ~> (driver.phase = "destroyed")

\* The destructor has finished on a three-element list that saw pops.
C11_Witness ==
    /\ driver.phase = "destroyed"
    /\ driver.visited = 3
    /\ pops >= 1
    /\ LiveSet(Cur) = {}

\* C13: the demo of main() writes what its comments document: forward
\* [1,2,3] and backward [3,2,1] after the three push_front calls, forward
\* [1,2,3,4,5] and backward [5,4,3,2,1] after the two push_back calls, then
\* pop_front() returns 1, pop_back() returns 5, forward is [2,3,4] and
\* size() is 3.
Documented ==
    << <<1, 2, 3>>, <<3, 2, 1>>,
       <<1, 2, 3, 4, 5>>, <<5, 4, 3, 2, 1>>,
       <<1>>, <<5>>,
       <<2, 3, 4>>, <<3>> >>

C13_Demo ==
    /\ ~driver.aborted
    /\ Len(driver.log) <= Len(Documented)
    /\ \A i \in 1 .. Len(driver.log) : driver.log[i] = Documented[i]
    /\ driver.pc = Len(Script) + 1 => driver.log = Documented

\* main() has made its last call.
C13_Witness ==
    /\ driver.pc = Len(Script) + 1
    /\ Len(driver.log) = 8
    /\ driver.log[5] = <<1>>
    /\ driver.log[6] = <<5>>
    /\ FwdVals(Cur) = <<2, 3, 4>>
    /\ size(Cur) = 3

\* C16: for every string, the empty and the one-character ones included,
\* isPalindrome(s) reads only indices 0 .. s.size()-1 and returns true
\* exactly when s equals its reverse.
C16_Palindrome ==
    /\ \A i \in pal.reads : i \in 0 .. Len(pal.s) - 1
    /\ pal.pc # "fault"
    /\ pal.pc = "done" => (pal.ret <=> (pal.s = Reverse(pal.s)))

\* C14: with every push and pop of the two callers run under an external
\* mutex, the list is well formed whenever the mutex is free: head / tail /
\* size_ are consistent, links are mutual, size_ is pushes minus successful
\* pops and nothing undefined was executed.  Without the mutex, statements
\* of two operations interleave and a state breaking this is reachable.
WellFormed ==
    /\ C2_Shape
    /\ C3_MutualLinks
    /\ LiveSet(Cur) = InList
    /\ size(Cur) = pushes - pops
    /\ ub = {}

Quiet == \A t \in Threads : driver.th[t].pc \in {"idle", "done"}

C14_LockedSafe ==
    (driver.mode = "locked" /\ driver.lock = 0) => (Quiet /\ WellFormed)

\* Without the mutex: both callers have returned from a push_front, nothing
\* undefined was executed, and the list is not well formed.
C14_Witness ==
    /\ driver.mode = "unlocked"
    /\ \A t \in Threads : driver.th[t].pc = "done" /\ driver.th[t].op = "push_front"
    /\ ub = {}
    /\ ~WellFormed

====
